---- MODULE Spec2Model ----
(***************************************************************************)
(* A model of advanced-vector/vector.h: RawMemory<T> (an owned raw block)  *)
(* and Vector<T> (a RawMemory plus the count of live elements).            *)
(*                                                                         *)
(* The heap is a set of blocks; a block is a sequence of slots; a slot is  *)
(* either Dead (raw memory, no object) or holds the value of a live T.     *)
(* A handler of vector.h is one action.  An exception thrown inside a      *)
(* handler is an input of the action: fa says that operator new throws,    *)
(* fe is the ordinal, among the element operations of the handler that may *)
(* throw for the element type, of the one that throws (0: none).           *)
(***************************************************************************)
EXTENDS Integers, Sequences, FiniteSets, TLC

\* Largest capacity a block is given in the model.
MaxCap == 3
\* Number of block addresses of the heap.
MaxBlocks == 3
\* Largest number of elements appended one at a time to an empty Vector.
MaxAppend == 5

\* A slot of raw memory that holds no object.
Dead == -1
\* The value of a value-initialized T, and of a T that was moved from when
\* the move of the element type empties its source.
Empty == 0
\* Values the callers pass in.
Val == {1, 2}
\* nullptr
Null == 0

Blocks == 1..MaxBlocks
VecIds == {1, 2}
RawIds == {1, 2}

\* Element types.  Trivial: nothing throws, a move is a copy (int).
\* Movable: noexcept move that empties the source, every other construction
\* or assignment may throw (std::string like).  CopyOnly: copyable, its move
\* operations are copies and may throw, like every other operation on it.
ElemTypes == {"Trivial", "Movable", "CopyOnly"}

VARIABLES
    elemT,      \* the element type T of the program
    heap,       \* block address -> slots of the block (<<>> when not allocated)
    allocd,     \* block addresses obtained from operator new and not yet deleted
    vec,        \* Vector objects: alive, data_ (buf, cap), size_
    raw,        \* stand-alone RawMemory objects: alive, buffer_, capacity_
    leakedObj,  \* the last operation lost a live object: it deleted the block of
                \* the object or built another object over it
    undef,      \* undefined behaviour was executed: the run is not followed further
    last,       \* the last operation: what, on which object, with what outcome
    frame,      \* the call of a reallocating insertion that is followed statement
                \* by statement: the statement to execute next, its arguments,
                \* its local new_data
    reallocs    \* the number of reallocations counted since construction

vars == <<elemT, heap, allocd, vec, raw, leakedObj, undef, last, frame, reallocs>>

----------------------------------------------------------------------------
\* Traits of T that vector.h branches on, and what may throw.

\* std::is_nothrow_move_constructible_v<T> || !std::is_copy_constructible_v<T>
UseMove == elemT \in {"Trivial", "Movable"}
\* T's copy constructor, copy assignment, T(args...) and T() may throw
CanThrowCopy == elemT # "Trivial"
\* T's move constructor and move assignment may throw
CanThrowMove == elemT = "CopyOnly"
\* the state of the source of a move after the move
MovedFrom(x) == IF elemT = "Movable" THEN Empty ELSE x

\* number of throwing operations among n operations of a kind
Thr(n, can) == IF can THEN n ELSE 0

----------------------------------------------------------------------------
\* Sequences of slots.  Source indices are 0-based, sequences 1-based.

Min(a, b) == IF a <= b THEN a ELSE b
Max(a, b) == IF a >= b THEN a ELSE b

RawSlots(n) == [i \in 1..n |-> Dead]

\* the slots of the block at address b
Slots(b) == IF b = Null THEN <<>> ELSE heap[b]

\* every slot of s with 0-based index in [lo, hi) holds a live object
LiveRange(s, lo, hi) == \A i \in (lo + 1)..hi : i <= Len(s) /\ s[i] # Dead
\* some slot of s with 0-based index in [lo, hi) holds a live object
SomeLive(s, lo, hi) == \E i \in (lo + 1)..hi : i <= Len(s) /\ s[i] # Dead

\* std::uninitialized_copy_n(src + so, n, dst + do), completed
UninitCopyN(src, so, n, dst, do) ==
    [i \in 1..Len(dst) |->
        IF i > do /\ i <= do + n THEN src[so + (i - do)] ELSE dst[i]]

\* the source range after std::uninitialized_move_n(src + so, n, ...)
MovedOutN(src, so, n) ==
    [i \in 1..Len(src) |->
        IF i > so /\ i <= so + n THEN MovedFrom(src[i]) ELSE src[i]]

\* a value construction that leaves the last of the n slots raw
UninitValueConstructShort(dst, do, n) ==
    [i \in 1..Len(dst) |-> IF i > do /\ i < do + n THEN Empty ELSE dst[i]]

\* std::uninitialized_value_construct_n(dst + do, n), completed
UninitValueConstructN(dst, do, n) ==
    [i \in 1..Len(dst) |-> IF i > do /\ i <= do + n THEN Empty ELSE dst[i]]

\* a destroy_n that destroys nothing
DestroyNone(s, lo, n) == s

\* std::destroy_n(s + lo, n)
DestroyN(s, lo, n) ==
    [i \in 1..Len(s) |-> IF i > lo /\ i <= lo + n THEN Dead ELSE s[i]]

\* an algorithm that leaves the objects it constructed when it throws
NotRolledBack(s, lo, n) == s

\* std::uninitialized_value_construct_n and std::uninitialized_copy_n
\* destroy the n objects they constructed from s + lo when a construction
\* throws
RolledBack(s, lo, n) == DestroyN(s, lo, n)

\* new (s + at) T(x)
ConstructAt(s, at, x) == [s EXCEPT ![at + 1] = x]

\* std::copy that stops one element short of src + n
CopyAssignShort(src, n, dst, k) ==
    [i \in 1..Len(dst) |-> IF i < n /\ i < k THEN src[i] ELSE dst[i]]

\* std::copy(src, src + n, dst) stopped before its k-th assignment
\* (k = n + 1: completed)
CopyAssignN(src, n, dst, k) ==
    [i \in 1..Len(dst) |-> IF i <= n /\ i < k THEN src[i] ELSE dst[i]]

\* a transfer that leaves the last of the n elements behind
TransferDstShort(src, so, n, dst, do) == UninitCopyN(src, so, n - 1, dst, do)

\* the transfer of n elements from src + so to dst + do on reallocation:
\* moved if UseMove, copied otherwise
TransferDst(src, so, n, dst, do) == UninitCopyN(src, so, n, dst, do)
TransferSrc(src, so, n) == IF UseMove THEN MovedOutN(src, so, n) ELSE src

----------------------------------------------------------------------------
\* RawMemory

\* RawMemory::Allocate: the address operator new returns
NewBlock == CHOOSE b \in Blocks \ allocd : \A c \in Blocks \ allocd : b <= c
Allocate(n) == IF n # 0 THEN NewBlock ELSE Null
\* operator new can be called for n slots
CanAllocate(n) == n <= MaxCap /\ (n # 0 => Blocks \ allocd # {})

\* RawMemory::Swap on two (buffer_, capacity_) pairs held in records
RawSwapA(a, b) == [a EXCEPT !.buf = b.buf, !.cap = b.cap]
RawSwapB(a, b) == [b EXCEPT !.buf = a.buf, !.cap = a.cap]

\* a ~RawMemory that does not delete its block
AllocdKeeps(a, b) == a

\* the heap with block b deleted (RawMemory::Deallocate); deleting nullptr
\* does nothing
HeapWithout(h, b) == IF b = Null THEN h ELSE [h EXCEPT ![b] = <<>>]
AllocdWithout(a, b) == a \ {b}

----------------------------------------------------------------------------
\* Vector

Size(v) == vec[v].size
Capacity(v) == vec[v].cap
Data(v) == Slots(vec[v].buf)
\* the elements begin()..end() traverses
Contents(v) == [i \in 1..Size(v) |-> Data(v)[i]]

NoVec == [alive |-> FALSE, buf |-> Null, cap |-> 0, size |-> 0]
NoRaw == [alive |-> FALSE, buf |-> Null, cap |-> 0]

\* no call is being followed statement by statement
NoFrame == [pc |-> "idle", op |-> "", v |-> 0, shift |-> 0, x |-> 0,
            ob |-> Null, nb |-> Null, i |-> 0, old |-> <<>>]

Op(op, v, src, pos, val, ok, realloc) ==
    [op |-> op, v |-> v, src |-> src, pos |-> pos, val |-> val,
     ok |-> ok, realloc |-> realloc]

\* Ordinals of the element operation that throws (0: none throws).
FailPoints == 0..(MaxCap + 1)

\* What a handler leaves behind.  out: "ok" (it returned), "throw" (an
\* exception left it), "undef" (it read, assigned to or destroyed a slot
\* that holds no object).  leak: a live object was lost.  used: the number of
\* element operations that could have thrown and did not.
Result(out, h, a, vs, leak, used, realloc) ==
    [out |-> out, heap |-> h, allocd |-> a, vec |-> vs, leak |-> leak,
     used |-> used, realloc |-> realloc]

\* the handler left everything as it was
Same(out, realloc) == Result(out, heap, allocd, vec, FALSE, 0, realloc)

\* the state after a handler, and the record of the operation
CommitVec(r, op, v, src, pos, val) ==
    /\ heap' = r.heap
    /\ allocd' = r.allocd
    /\ vec' = r.vec
    /\ leakedObj' = r.leak
    /\ undef' = (r.out = "undef")
    /\ last' = Op(op, v, src, pos, val, r.out = "ok", r.realloc)
    /\ UNCHANGED <<elemT, raw>>

Commit(r, op, v, src, pos, val) ==
    /\ CommitVec(r, op, v, src, pos, val)
    /\ UNCHANGED <<frame, reallocs>>

\* the same, the reallocations counted
CommitCounted(r, op, v, src, pos, val) ==
    /\ CommitVec(r, op, v, src, pos, val)
    /\ reallocs' = IF r.realloc /\ r.out = "ok" THEN reallocs + 1 ELSE reallocs
    /\ UNCHANGED frame

\* block b deleted by ~RawMemory: a live object in it is lost
LostIn(s) == SomeLive(s, 0, Len(s))

----------------------------------------------------------------------------
\* Assignments that shift elements.

\* *(s + d) = std::move(*(s + j))
MoveAssign1(s, d, j) ==
    IF d = j THEN s
    ELSE [s EXCEPT ![d + 1] = s[j + 1], ![j + 1] = MovedFrom(s[j + 1])]

RECURSIVE MoveBackwardFrom(_, _, _, _, _, _)
MoveBackwardFrom(s, first, lst, dlast, t, k) ==
    IF t > lst - first \/ t = k THEN s
    ELSE MoveBackwardFrom(MoveAssign1(s, dlast - t, lst - t),
                          first, lst, dlast, t + 1, k)

\* std::move_backward(s + first, s + lst, s + dlast) stopped before its k-th
\* assignment (k = 0: completed)
MoveBackward(s, first, lst, dlast, k) ==
    MoveBackwardFrom(s, first, lst, dlast, 1, k)

RECURSIVE MoveForwardFrom(_, _, _, _, _, _)
MoveForwardFrom(s, first, lst, dfirst, t, k) ==
    IF t > lst - first \/ t = k THEN s
    ELSE MoveForwardFrom(MoveAssign1(s, dfirst + t - 1, first + t - 1),
                         first, lst, dfirst, t + 1, k)

\* std::move(s + first, s + lst, s + dfirst) stopped before its k-th
\* assignment (k = 0: completed)
MoveForward(s, first, lst, dfirst, k) ==
    MoveForwardFrom(s, first, lst, dfirst, 1, k)

----------------------------------------------------------------------------
\* Vector: construction and destruction

Init ==
    /\ elemT \in ElemTypes
    /\ heap = [b \in Blocks |-> <<>>]
    /\ allocd = {}
    /\ vec = [v \in VecIds |-> IF v = 1 THEN [NoVec EXCEPT !.alive = TRUE] ELSE NoVec]
    /\ raw = [r \in RawIds |-> NoRaw]
    /\ leakedObj = FALSE
    /\ undef = FALSE
    /\ last = Op("Vector", 1, 0, 0, 0, TRUE, FALSE)
    /\ frame = NoFrame
    /\ reallocs = 0

\* Vector() = default
DefaultConstruct(v) ==
    /\ ~undef /\ ~vec[v].alive
    /\ Commit(Result("ok", heap, allocd,
                     [vec EXCEPT ![v] = [NoVec EXCEPT !.alive = TRUE]],
                     FALSE, 0, FALSE),
              "Vector", v, 0, 0, 0)

\* explicit Vector(size_t size)
SizedRun(v, n, fa, fe) ==
    LET nb == Allocate(n)
        built == UninitValueConstructN(RawSlots(n), 0, n)
        \* the fe-th construction throws: the fe - 1 objects built are
        \* destroyed, then ~RawMemory of data_ deletes the block
        partial == UninitValueConstructN(RawSlots(n), 0, fe - 1)
        rolled == RolledBack(partial, 0, fe - 1)
    IN  IF fa THEN Same("throw", n # 0)
        ELSE IF fe \in 1..Thr(n, CanThrowCopy)
        THEN Result("throw", HeapWithout([heap EXCEPT ![nb] = rolled], nb),
                    AllocdWithout(allocd \cup {nb}, nb), vec,
                    LostIn(rolled), 0, TRUE)
        ELSE Result("ok",
                    IF n = 0 THEN heap ELSE [heap EXCEPT ![nb] = built],
                    IF n = 0 THEN allocd ELSE allocd \cup {nb},
                    [vec EXCEPT ![v] = [alive |-> TRUE, buf |-> nb,
                                        cap |-> n, size |-> n]],
                    FALSE, Thr(n, CanThrowCopy), n # 0)

SizedConstruct(v, n, fa, fe) ==
    /\ ~undef /\ ~vec[v].alive
    /\ CanAllocate(n)
    /\ fa => (n # 0 /\ fe = 0)
    /\ fe <= Thr(n, CanThrowCopy)
    /\ Commit(SizedRun(v, n, fa, fe), "Vector(n)", v, 0, n, fe)

\* a copy constructor that takes the address of the source's block instead
\* of copying the elements into a block of its own
CopyRunShallow(v, o, fa, fe) ==
    Result("ok", heap, allocd,
           [vec EXCEPT ![v] = [vec[o] EXCEPT !.alive = TRUE]], FALSE, 0, FALSE)

\* Vector(const Vector& other)
CopyRun(v, o, fa, fe) ==
    LET n == vec[o].size
        nb == Allocate(n)
        built == UninitCopyN(Data(o), 0, n, RawSlots(n), 0)
        \* the fe-th copy throws: the fe - 1 copies built are destroyed, then
        \* ~RawMemory of data_ deletes the block
        partial == UninitCopyN(Data(o), 0, fe - 1, RawSlots(n), 0)
        rolled == RolledBack(partial, 0, fe - 1)
    IN  IF fa THEN Same("throw", n # 0)
        ELSE IF ~LiveRange(Data(o), 0, n) THEN Same("undef", n # 0)
        ELSE IF fe \in 1..Thr(n, CanThrowCopy)
        THEN Result("throw", HeapWithout([heap EXCEPT ![nb] = rolled], nb),
                    AllocdWithout(allocd \cup {nb}, nb), vec,
                    LostIn(rolled), 0, TRUE)
        ELSE Result("ok",
                    IF n = 0 THEN heap ELSE [heap EXCEPT ![nb] = built],
                    IF n = 0 THEN allocd ELSE allocd \cup {nb},
                    [vec EXCEPT ![v] = [alive |-> TRUE, buf |-> nb,
                                        cap |-> n, size |-> n]],
                    FALSE, Thr(n, CanThrowCopy), n # 0)

CopyConstruct(v, o, fa, fe) ==
    /\ ~undef /\ ~vec[v].alive /\ vec[o].alive
    /\ CanAllocate(vec[o].size)
    /\ fa => (vec[o].size # 0 /\ fe = 0)
    /\ fe <= Thr(vec[o].size, CanThrowCopy)
    /\ Commit(CopyRun(v, o, fa, fe), "Vector(copy)", v, o, fe, 0)

\* a Swap that exchanges data_ and leaves other.size_ as it was
SwapBKeepsSize(a, b) == RawSwapB(a, b)

\* Vector::Swap on the records of two Vectors
SwapA(a, b) == [RawSwapA(a, b) EXCEPT !.size = b.size]
SwapB(a, b) == [RawSwapB(a, b) EXCEPT !.size = a.size]

\* the Vectors after vec[v].Swap(vec[o])
Swapped(vs, v, o) ==
    [w \in VecIds |-> IF w = v THEN SwapA(vs[v], vs[o])
                      ELSE IF w = o THEN SwapB(vs[v], vs[o])
                      ELSE vs[w]]

\* Vector(Vector&& other)
MoveConstruct(v, o) ==
    /\ ~undef /\ ~vec[v].alive /\ vec[o].alive
    /\ Commit(Result("ok", heap, allocd,
                     Swapped([vec EXCEPT ![v] = [NoVec EXCEPT !.alive = TRUE]], v, o),
                     FALSE, 0, FALSE),
              "Vector(move)", v, o, 0, 0)

\* ~Vector, then ~RawMemory of data_
DestroyRun(vs, h, a, v) ==
    LET V == vs[v]
        old == IF V.buf = Null THEN <<>> ELSE h[V.buf]
        gone == DestroyN(old, 0, V.size)
    IN  IF ~LiveRange(old, 0, V.size) THEN Same("undef", FALSE)
        ELSE Result("ok", HeapWithout(h, V.buf), AllocdWithout(a, V.buf),
                    [vs EXCEPT ![v] = NoVec], LostIn(gone), 0, FALSE)

Destroy(v) ==
    /\ ~undef /\ vec[v].alive
    /\ Commit(DestroyRun(vec, heap, allocd, v), "~Vector", v, 0, 0, 0)

----------------------------------------------------------------------------
\* Vector: capacity

\* Reserve(new_capacity)
ReserveRun(v, n, fa, fe) ==
    LET V == vec[v]
        old == Data(v)
        nb == Allocate(n)
        nTr == IF UseMove THEN 0 ELSE Thr(V.size, CanThrowCopy)
        new_data == TransferDst(old, 0, V.size, RawSlots(n), 0)
        gone == DestroyN(TransferSrc(old, 0, V.size), 0, V.size)
    IN  IF n <= V.cap THEN Same("ok", FALSE)
        ELSE IF fa THEN Same("throw", TRUE)
        ELSE IF ~LiveRange(old, 0, V.size) THEN Same("undef", TRUE)
        ELSE IF fe \in 1..nTr THEN Same("throw", TRUE)
        ELSE Result("ok",
                    [HeapWithout(heap, V.buf) EXCEPT ![nb] = new_data],
                    AllocdWithout(allocd, V.buf) \cup {nb},
                    [vec EXCEPT ![v] = [V EXCEPT !.buf = nb, !.cap = n]],
                    LostIn(gone), nTr, TRUE)

\* the inputs of a reallocation to n slots that the model follows
ReallocInputs(n, fa, fe, nThrow) ==
    /\ CanAllocate(n)
    /\ fa => fe = 0
    /\ fe <= nThrow

Reserve(v, n, fa, fe) ==
    /\ ~undef /\ vec[v].alive
    /\ IF n <= vec[v].cap THEN ~fa /\ fe = 0
       ELSE ReallocInputs(n, fa, fe,
                          IF UseMove THEN 0 ELSE Thr(vec[v].size, CanThrowCopy))
    /\ Commit(ReserveRun(v, n, fa, fe), "Reserve", v, 0, n, 0)

\* Resize(new_size)
ResizeRun(v, n, fa, fe) ==
    LET V == vec[v]
        old == Data(v)
        r == ReserveRun(v, n, fa, fe)
        W == r.vec[v]
        buf == IF W.buf = Null THEN <<>> ELSE r.heap[W.buf]
        nCt == Thr(n - V.size, CanThrowCopy)
        built == UninitValueConstructN(buf, V.size, n - V.size)
    IN  IF n < V.size
        THEN IF ~LiveRange(old, n, V.size) THEN Same("undef", FALSE)
             ELSE Result("ok",
                         [heap EXCEPT ![V.buf] = DestroyN(old, n, V.size - n)],
                         allocd,
                         [vec EXCEPT ![v] = [V EXCEPT !.size = n]],
                         FALSE, 0, FALSE)
        ELSE IF r.out # "ok" THEN r
        ELSE IF fe - r.used \in 1..nCt THEN [r EXCEPT !.out = "throw"]
        ELSE Result("ok",
                    IF W.buf = Null THEN r.heap
                    ELSE [r.heap EXCEPT ![W.buf] = built],
                    r.allocd,
                    [r.vec EXCEPT ![v] = [W EXCEPT !.size = n]],
                    r.leak \/ SomeLive(buf, V.size, n), r.used + nCt, r.realloc)

Resize(v, n, fa, fe) ==
    LET V == vec[v]
        nTr == IF n > V.cap /\ ~UseMove THEN Thr(V.size, CanThrowCopy) ELSE 0
    IN  /\ ~undef /\ V.alive
        /\ IF n < V.size THEN ~fa /\ fe = 0
           ELSE /\ n > V.cap => CanAllocate(n)
                /\ fa => (n > V.cap /\ fe = 0)
                /\ fe <= nTr + Thr(n - V.size, CanThrowCopy)
        /\ Commit(ResizeRun(v, n, fa, fe), "Resize", v, 0, n, 0)

----------------------------------------------------------------------------
\* Vector: mutation at the end

\* a growth by one slot
GrownByOne(size) == size + 1

\* size_ == 0 ? 1 : size_ * 2
GrownCapacity(size) == IF size = 0 THEN 1 ELSE size * 2

\* The body shared by PushBack(const T&), PushBack(T&&) and
\* EmplaceBack(Args&&...): they differ in how the incoming element is
\* constructed, so in whether that construction may throw (inThrows).
AppendRun(v, x, inThrows, fa, fe) ==
    LET V == vec[v]
        old == Data(v)
        ncap == GrownCapacity(V.size)
        nb == Allocate(ncap)
        nIn == Thr(1, inThrows)
        nTr == IF UseMove THEN 0 ELSE Thr(V.size, CanThrowCopy)
        placed == ConstructAt(RawSlots(ncap), V.size, x)
        new_data == TransferDst(old, 0, V.size, placed, 0)
        gone == DestroyN(TransferSrc(old, 0, V.size), 0, V.size)
        \* the copy of the t-th element throws: uninitialized_copy_n destroys
        \* the t - 1 copies it built, then ~RawMemory of new_data deletes the
        \* block with what is left in it
        t == fe - nIn
        rolled == RolledBack(UninitCopyN(old, 0, t - 1, placed, 0), 0, t - 1)
    IN  IF V.size = V.cap
        THEN IF fa \/ fe \in 1..nIn THEN Same("throw", TRUE)
             ELSE IF ~LiveRange(old, 0, V.size) THEN Same("undef", TRUE)
             ELSE IF fe \in (nIn + 1)..(nIn + nTr)
                  THEN Result("throw",
                              HeapWithout([heap EXCEPT ![nb] = rolled], nb),
                              AllocdWithout(allocd \cup {nb}, nb), vec,
                              LostIn(rolled), 0, TRUE)
             ELSE Result("ok",
                         [HeapWithout(heap, V.buf) EXCEPT ![nb] = new_data],
                         AllocdWithout(allocd, V.buf) \cup {nb},
                         [vec EXCEPT ![v] = [V EXCEPT !.buf = nb, !.cap = ncap,
                                                      !.size = V.size + 1]],
                         LostIn(gone), nIn + nTr, TRUE)
        ELSE IF fe \in 1..nIn THEN Same("throw", FALSE)
             ELSE Result("ok",
                         [heap EXCEPT ![V.buf] = ConstructAt(old, V.size, x)],
                         allocd,
                         [vec EXCEPT ![v] = [V EXCEPT !.size = V.size + 1]],
                         old[V.size + 1] # Dead, nIn, FALSE)

\* the inputs of an append or an insertion that the model follows
GrowInputs(v, inThrows, fa, fe, nInPlace) ==
    LET V == vec[v]
        ncap == GrownCapacity(V.size)
    IN  IF V.size = V.cap
        THEN ReallocInputs(ncap, fa, fe,
                           Thr(1, inThrows) +
                           (IF UseMove THEN 0 ELSE Thr(V.size, CanThrowCopy)))
        ELSE ~fa /\ fe <= nInPlace

\* PushBack(const T& value)
PushBack(v, x, fa, fe) ==
    /\ ~undef /\ vec[v].alive
    /\ GrowInputs(v, CanThrowCopy, fa, fe, Thr(1, CanThrowCopy))
    /\ Commit(AppendRun(v, x, CanThrowCopy, fa, fe), "PushBack", v, 0, vec[v].size, x)

\* PushBack(T&& value)
PushBackMove(v, x, fa, fe) ==
    /\ ~undef /\ vec[v].alive
    /\ GrowInputs(v, CanThrowMove, fa, fe, Thr(1, CanThrowMove))
    /\ Commit(AppendRun(v, x, CanThrowMove, fa, fe), "PushBack", v, 0, vec[v].size, x)

\* EmplaceBack(Args&&... args)
EmplaceBack(v, x, fa, fe) ==
    /\ ~undef /\ vec[v].alive
    /\ GrowInputs(v, CanThrowCopy, fa, fe, Thr(1, CanThrowCopy))
    /\ Commit(AppendRun(v, x, CanThrowCopy, fa, fe), "EmplaceBack", v, 0, vec[v].size, x)

\* PopBack()
PopBackRun(vs, h, v) ==
    LET V == vs[v]
        old == IF V.buf = Null THEN <<>> ELSE h[V.buf]
    IN  IF V.size > 0
        THEN IF ~LiveRange(old, V.size - 1, V.size) THEN Same("undef", FALSE)
             ELSE Result("ok",
                         [h EXCEPT ![V.buf] = DestroyN(old, V.size - 1, 1)],
                         allocd,
                         [vs EXCEPT ![v] = [V EXCEPT !.size = V.size - 1]],
                         FALSE, 0, FALSE)
        ELSE Result("ok", h, allocd, vs, FALSE, 0, FALSE)

PopBack(v) ==
    /\ ~undef /\ vec[v].alive
    /\ Commit(PopBackRun(vec, heap, v), "PopBack", v, 0, 0, 0)

----------------------------------------------------------------------------
\* Vector: mutation in the middle

\* Emplace(pos, args...) with shift = pos - begin(); Insert(pos, value) is
\* Emplace(pos, value).  inThrows: the construction of the new element may
\* throw.
EmplaceRun(v, shift, x, inThrows, fa, fe) ==
    LET V == vec[v]
        old == Data(v)
        ncap == GrownCapacity(V.size)
        nb == Allocate(ncap)
        nIn == Thr(1, inThrows)
        nTr == IF UseMove THEN 0 ELSE Thr(V.size, CanThrowCopy)
        \* the reallocating branch
        placed == ConstructAt(RawSlots(ncap), shift, x)
        prefix == TransferDst(old, 0, shift, placed, 0)
        new_data == TransferDst(old, shift, V.size - shift, prefix, shift + 1)
        gone == DestroyN(TransferSrc(old, 0, V.size), 0, V.size)
        \* the copy of the t-th element throws: the uninitialized_copy_n that
        \* was copying destroys the copies it built, then ~RawMemory of
        \* new_data deletes the block with what is left in it
        t == fe - nIn
        rolled == IF t <= shift
                  THEN RolledBack(UninitCopyN(old, 0, t - 1, placed, 0), 0, t - 1)
                  ELSE RolledBack(UninitCopyN(old, shift, t - 1 - shift,
                                              prefix, shift + 1),
                                  shift + 1, t - 1 - shift)
        \* the in-place branch
        nMv == Thr(1, CanThrowMove)
        nSh == Thr(V.size - shift, CanThrowMove)
        k == IF fe > nMv /\ fe <= nMv + nSh THEN fe - nMv ELSE 0
        s1 == ConstructAt(MovedOutN(old, V.size - 1, 1), V.size, old[V.size])
        s2 == MoveBackward(s1, shift, V.size, V.size + 1, k)
        s3 == DestroyN(s2, shift, 1)
        s4 == ConstructAt(s3, shift, x)
        Left(out, s, n) ==
            Result(out, [heap EXCEPT ![V.buf] = s], allocd,
                   [vec EXCEPT ![v] = [V EXCEPT !.size = n]],
                   old[V.size + 1] # Dead, 0, FALSE)
    IN  IF V.size = V.cap
        THEN IF fa \/ fe \in 1..nIn THEN Same("throw", TRUE)
             ELSE IF ~LiveRange(old, 0, V.size) THEN Same("undef", TRUE)
             ELSE IF fe \in (nIn + 1)..(nIn + nTr)
                  THEN Result("throw",
                              HeapWithout([heap EXCEPT ![nb] = rolled], nb),
                              AllocdWithout(allocd \cup {nb}, nb), vec,
                              LostIn(rolled), 0, TRUE)
             ELSE Result("ok",
                         [HeapWithout(heap, V.buf) EXCEPT ![nb] = new_data],
                         AllocdWithout(allocd, V.buf) \cup {nb},
                         [vec EXCEPT ![v] = [V EXCEPT !.buf = nb, !.cap = ncap,
                                                      !.size = V.size + 1]],
                         LostIn(gone), nIn + nTr, TRUE)
        ELSE IF V.size # 0
        THEN IF ~LiveRange(old, Min(shift, V.size - 1), V.size)
                  THEN Same("undef", FALSE)
             ELSE IF fe \in 1..nMv THEN Same("throw", FALSE)
             ELSE IF k # 0 THEN Left("throw", s2, V.size)
             ELSE IF fe \in (nMv + nSh + 1)..(nMv + nSh + nIn)
                  THEN Left("throw", s3, V.size)
             ELSE Left("ok", s4, V.size + 1)
        ELSE IF fe \in 1..nIn THEN Same("throw", FALSE)
             ELSE Left("ok", ConstructAt(old, shift, x), V.size + 1)

\* the number of element operations of an in-place Emplace that may throw
InPlaceThrows(v, shift, inThrows) ==
    IF vec[v].size = 0 THEN Thr(1, inThrows)
    ELSE Thr(1, CanThrowMove) + Thr(vec[v].size - shift, CanThrowMove)
         + Thr(1, inThrows)

\* Emplace(const_iterator pos, Args&&... args)
Emplace(v, shift, x, fa, fe) ==
    /\ ~undef /\ vec[v].alive /\ shift <= vec[v].size
    /\ GrowInputs(v, CanThrowCopy, fa, fe, InPlaceThrows(v, shift, CanThrowCopy))
    /\ Commit(EmplaceRun(v, shift, x, CanThrowCopy, fa, fe), "Emplace", v, 0, shift, x)

\* Insert(const_iterator pos, const T& value)
Insert(v, shift, x, fa, fe) ==
    /\ ~undef /\ vec[v].alive /\ shift <= vec[v].size
    /\ GrowInputs(v, CanThrowCopy, fa, fe, InPlaceThrows(v, shift, CanThrowCopy))
    /\ Commit(EmplaceRun(v, shift, x, CanThrowCopy, fa, fe), "Emplace", v, 0, shift, x)

\* Insert(const_iterator pos, T&& value)
InsertMove(v, shift, x, fa, fe) ==
    /\ ~undef /\ vec[v].alive /\ shift <= vec[v].size
    /\ GrowInputs(v, CanThrowMove, fa, fe, InPlaceThrows(v, shift, CanThrowMove))
    /\ Commit(EmplaceRun(v, shift, x, CanThrowMove, fa, fe), "Emplace", v, 0, shift, x)

\* Insert(pos, value) with value a reference to the element at index of the
\* same Vector.  The reallocating branch constructs the new element from
\* *value first, while the old block is as it was.  The in-place branch
\* constructs it last, from what slot index holds after the shift and the
\* destroy_at; reading the slot that destroy_at left without an object is
\* undefined.
InsertRefRun(v, shift, index, fa, fe) ==
    LET V == vec[v]
        old == Data(v)
        r == EmplaceRun(v, shift, old[index + 1], CanThrowCopy, fa, fe)
        s == r.heap[V.buf]
    IN  IF old[index + 1] = Dead THEN Same("undef", V.size = V.cap)
        ELSE IF V.size = V.cap \/ r.out # "ok" THEN r
        ELSE IF index = shift THEN Same("undef", FALSE)
        ELSE [r EXCEPT !.heap = [r.heap EXCEPT ![V.buf] =
                                    ConstructAt(s, shift, s[index + 1])]]

InsertRef(v, shift, index, fa, fe) ==
    /\ ~undef /\ vec[v].alive /\ shift <= vec[v].size /\ index < vec[v].size
    /\ GrowInputs(v, CanThrowCopy, fa, fe, InPlaceThrows(v, shift, CanThrowCopy))
    /\ Commit(InsertRefRun(v, shift, index, fa, fe), "Insert(ref)", v, index, shift,
              Data(v)[index + 1])

\* Erase(const_iterator pos) with shift = pos - begin()
EraseRun(v, shift, fe) ==
    LET V == vec[v]
        old == Data(v)
        nSh == Thr(V.size - 1 - shift, CanThrowMove)
        s1 == MoveForward(old, shift + 1, V.size, shift, fe)
        At(s) == [heap EXCEPT ![V.buf] = s]
    IN  IF ~LiveRange(old, shift, V.size) THEN Same("undef", FALSE)
        ELSE IF fe \in 1..nSh
             THEN Result("throw", At(s1), allocd, vec, FALSE, 0, FALSE)
        ELSE PopBackRun(vec, At(s1), v)

Erase(v, shift, fe) ==
    /\ ~undef /\ vec[v].alive /\ shift < vec[v].size
    /\ fe <= Thr(vec[v].size - 1 - shift, CanThrowMove)
    /\ Commit(EraseRun(v, shift, fe), "Erase", v, 0, shift, 0)

----------------------------------------------------------------------------
\* Vector: assignment and swap

\* a test that also sends an rhs that fills the capacity to the copy-and-swap
\* branch
NeedsNewBlockOrFull(n, cap) == n > cap \/ (n = cap /\ n # 0)

\* a copy assignment that sets size_ = rhs.size_ before it copies
SizeAssignedFirst(size, rhsSize) == rhsSize

\* size_ when a copy throws in the branches that reuse the storage:
\* size_ = rhs.size_ is their last statement and is not reached
SizeAfterThrow(size, rhsSize) == size

\* rhs.size_ > data_.Capacity(): the assignment goes through a copy of rhs
NeedsNewBlock(n, cap) == n > cap

\* operator=(const Vector& rhs)
CopyAssignRun(v, o, fa, fe) ==
    LET V == vec[v]
        R == vec[o]
        old == Data(v)
        src == Data(o)
        nCp == Thr(R.size, CanThrowCopy)
        \* rhs.size_ > data_.Capacity(): Vector rhs_copy(rhs); Swap(rhs_copy)
        nb == Allocate(R.size)
        rhs_copy == UninitCopyN(src, 0, R.size, RawSlots(R.size), 0)
        gone == DestroyN(old, 0, V.size)
        \* the storage is reused
        nAs == Min(V.size, R.size)
        assigned == CopyAssignN(src, nAs, old, IF fe = 0 THEN nAs + 1 ELSE fe)
        shrunk == DestroyN(assigned, R.size, V.size - R.size)
        grown == UninitCopyN(src, V.size, R.size - V.size, assigned, V.size)
        \* the copy construction of the j-th retained element throws
        j == fe - Thr(nAs, CanThrowCopy)
        partial == UninitCopyN(src, V.size, j - 1, assigned, V.size)
        rolled == RolledBack(partial, V.size, j - 1)
        thrownSize == SizeAfterThrow(V.size, R.size)
        With(out, s, n, leak) ==
            Result(out, [heap EXCEPT ![V.buf] = s], allocd,
                   [vec EXCEPT ![v] = [V EXCEPT !.size = n]], leak, 0, FALSE)
    IN  IF v = o THEN Same("ok", FALSE)
        ELSE IF NeedsNewBlock(R.size, V.cap)
        THEN IF fa THEN Same("throw", TRUE)
             ELSE IF ~LiveRange(src, 0, R.size) THEN Same("undef", TRUE)
             ELSE IF fe \in 1..nCp THEN Same("throw", TRUE)
             ELSE IF ~LiveRange(old, 0, V.size) THEN Same("undef", TRUE)
             ELSE Result("ok",
                         [HeapWithout(heap, V.buf) EXCEPT ![nb] = rhs_copy],
                         AllocdWithout(allocd, V.buf) \cup {nb},
                         [vec EXCEPT ![v] = [V EXCEPT !.buf = nb, !.cap = R.size,
                                                      !.size = R.size]],
                         LostIn(gone), nCp, TRUE)
        ELSE IF ~LiveRange(src, 0, R.size) \/ ~LiveRange(old, 0, V.size)
             THEN Same("undef", FALSE)
        ELSE IF V.size = 0 /\ R.size = 0 THEN Same("ok", FALSE)
        ELSE IF fe \in 1..Thr(nAs, CanThrowCopy)
             THEN With("throw", assigned, thrownSize, FALSE)
        ELSE IF R.size < V.size THEN With("ok", shrunk, R.size, FALSE)
        ELSE IF fe # 0 THEN With("throw", rolled, thrownSize, FALSE)
        ELSE With("ok", grown, R.size, SomeLive(old, V.size, R.size))

CopyAssign(v, o, fa, fe) ==
    LET V == vec[v]
        R == vec[o]
    IN  /\ ~undef /\ V.alive /\ R.alive
        /\ IF v = o THEN ~fa /\ fe = 0
           ELSE IF NeedsNewBlock(R.size, V.cap)
                THEN ReallocInputs(R.size, fa, fe, Thr(R.size, CanThrowCopy))
                ELSE ~fa /\ fe <= Thr(R.size, CanThrowCopy)
        /\ Commit(CopyAssignRun(v, o, fa, fe), "operator=(copy)", v, o, fe, 0)

\* operator=(Vector&& rhs)
MoveAssign(v, o) ==
    /\ ~undef /\ vec[v].alive /\ vec[o].alive
    /\ Commit(Result("ok", heap, allocd, Swapped(vec, v, o), FALSE, 0, FALSE),
              "operator=(move)", v, o, 0, 0)

\* Swap(Vector& other)
Swap(v, o) ==
    /\ ~undef /\ vec[v].alive /\ vec[o].alive
    /\ Commit(Result("ok", heap, allocd, Swapped(vec, v, o), FALSE, 0, FALSE),
              "Swap", v, o, 0, 0)

\* v[index] = x: operator[] hands out the element, the caller assigns to it
SetAtRun(v, index, x, fe) ==
    LET V == vec[v]
        old == Data(v)
    IN  IF ~LiveRange(old, index, index + 1) THEN Same("undef", FALSE)
        ELSE IF fe \in 1..Thr(1, CanThrowCopy) THEN Same("throw", FALSE)
        ELSE Result("ok", [heap EXCEPT ![V.buf] = [old EXCEPT ![index + 1] = x]],
                    allocd, vec, FALSE, 0, FALSE)

SetAt(v, index, x, fe) ==
    /\ ~undef /\ vec[v].alive /\ index < vec[v].size
    /\ fe <= Thr(1, CanThrowCopy)
    /\ Commit(SetAtRun(v, index, x, fe), "operator[]", v, 0, index, x)

----------------------------------------------------------------------------
\* RawMemory objects on their own

RawCommit(h, a, rw, ud, op, r, o, n, ok) ==
    /\ heap' = h
    /\ allocd' = a
    /\ raw' = rw
    /\ undef' = ud
    /\ leakedObj' = FALSE
    /\ last' = Op(op, r, o, n, 0, ok, FALSE)
    /\ UNCHANGED <<elemT, vec, frame, reallocs>>

\* RawMemory() = default
RawDefault(r) ==
    /\ ~undef /\ ~raw[r].alive
    /\ RawCommit(heap, allocd, [raw EXCEPT ![r] = [NoRaw EXCEPT !.alive = TRUE]],
                 FALSE, "RawMemory", r, 0, 0, TRUE)

\* explicit RawMemory(size_t capacity)
RawConstruct(r, n, fa) ==
    LET nb == Allocate(n)
    IN  /\ ~undef /\ ~raw[r].alive
        /\ CanAllocate(n)
        /\ fa => n # 0
        /\ IF fa
           THEN RawCommit(heap, allocd, raw, FALSE, "RawMemory(n)", r, 0, n, FALSE)
           ELSE RawCommit(IF n = 0 THEN heap ELSE [heap EXCEPT ![nb] = RawSlots(n)],
                          IF n = 0 THEN allocd ELSE allocd \cup {nb},
                          [raw EXCEPT ![r] = [alive |-> TRUE, buf |-> nb, cap |-> n]],
                          FALSE, "RawMemory(n)", r, 0, n, TRUE)

\* the source of RawMemory(RawMemory&& other) after it: std::move of a
\* pointer and of a size_t copies them
RawMovedFrom(o) == o

\* RawMemory(RawMemory&& other)
RawMoveConstruct(r, o) ==
    /\ ~undef /\ ~raw[r].alive /\ raw[o].alive
    /\ RawCommit(heap, allocd,
                 [raw EXCEPT ![r] = [alive |-> TRUE, buf |-> raw[o].buf,
                                     cap |-> raw[o].cap],
                             ![o] = RawMovedFrom(raw[o])],
                 FALSE, "RawMemory(move)", r, o, 0, TRUE)

\* the RawMemory objects after raw[r].Swap(raw[o])
RawSwapped(rw, r, o) ==
    [w \in RawIds |-> IF w = r THEN RawSwapA(rw[r], rw[o])
                      ELSE IF w = o THEN RawSwapB(rw[r], rw[o])
                      ELSE rw[w]]

\* RawMemory::operator=(RawMemory&& rhs)
RawMoveAssign(r, o) ==
    /\ ~undef /\ raw[r].alive /\ raw[o].alive
    /\ RawCommit(heap, allocd, RawSwapped(raw, r, o), FALSE,
                 "RawMemory::operator=(move)", r, o, 0, TRUE)

\* RawMemory::Swap(RawMemory& other)
RawSwap(r, o) ==
    /\ ~undef /\ raw[r].alive /\ raw[o].alive
    /\ RawCommit(heap, allocd, RawSwapped(raw, r, o), FALSE,
                 "RawMemory::Swap", r, o, 0, TRUE)

\* ~RawMemory: operator delete on an address that is not allocated (a block
\* another RawMemory already deleted) is undefined
RawDestroy(r) ==
    LET b == raw[r].buf
    IN  /\ ~undef /\ raw[r].alive
        /\ IF b # Null /\ b \notin allocd
           THEN RawCommit(heap, allocd, raw, TRUE, "~RawMemory", r, 0, 0, FALSE)
           ELSE RawCommit(HeapWithout(heap, b), AllocdWithout(allocd, b),
                          [raw EXCEPT ![r] = NoRaw], FALSE,
                          "~RawMemory", r, 0, 0, TRUE)

NextRaw ==
    \/ \E r \in RawIds : RawDefault(r)
    \/ \E r \in RawIds, n \in 0..MaxCap, fa \in BOOLEAN : RawConstruct(r, n, fa)
    \/ \E r, o \in RawIds : RawMoveConstruct(r, o)
    \/ \E r, o \in RawIds : RawMoveAssign(r, o)
    \/ \E r, o \in RawIds : RawSwap(r, o)
    \/ \E r \in RawIds : RawDestroy(r)

SpecRaw == Init /\ [][NextRaw]_vars

----------------------------------------------------------------------------
\* The operations on Vector v, the inputs drawn from small sets: sizes,
\* capacities and positions up to c, values from X.
Mutate(v, c, X) ==
    \/ \E n \in 0..c, fa \in BOOLEAN, fe \in FailPoints : Reserve(v, n, fa, fe)
    \/ \E n \in 0..c, fa \in BOOLEAN, fe \in FailPoints : Resize(v, n, fa, fe)
    \/ \E x \in X, fa \in BOOLEAN, fe \in FailPoints :
          Size(v) < c /\ PushBack(v, x, fa, fe)
    \/ PopBack(v)
    \/ \E p \in 0..c, x \in X, fa \in BOOLEAN, fe \in FailPoints :
          Size(v) < c /\ Emplace(v, p, x, fa, fe)
    \/ \E p \in 0..c, fe \in FailPoints : Erase(v, p, fe)
    \/ \E p \in 0..c, x \in X, fe \in FailPoints : SetAt(v, p, x, fe)

\* The overloads that differ from the above in how the new element is built.
MutateMore(v, c, X) ==
    \/ \E x \in X, fa \in BOOLEAN, fe \in FailPoints :
          Size(v) < c /\ PushBackMove(v, x, fa, fe)
    \/ \E x \in X, fa \in BOOLEAN, fe \in FailPoints :
          Size(v) < c /\ EmplaceBack(v, x, fa, fe)
    \/ \E p \in 0..c, x \in X, fa \in BOOLEAN, fe \in FailPoints :
          Size(v) < c /\ Insert(v, p, x, fa, fe)
    \/ \E p \in 0..c, x \in X, fa \in BOOLEAN, fe \in FailPoints :
          Size(v) < c /\ InsertMove(v, p, x, fa, fe)

\* One Vector: constructed, mutated, destroyed.
NextOne ==
    \/ DefaultConstruct(1)
    \/ \E n \in 0..MaxCap, fa \in BOOLEAN, fe \in FailPoints :
          SizedConstruct(1, n, fa, fe)
    \/ Destroy(1)
    \/ Mutate(1, MaxCap, Val)
    \/ MutateMore(1, MaxCap, Val)

SpecOne == Init /\ [][NextOne]_vars

\* Two Vectors, each of at most PairCap elements, one value passed in.
PairCap == MaxCap - 1
PairVal == {1}

Next ==
    \/ \E v \in VecIds : DefaultConstruct(v)
    \/ \E v \in VecIds, n \in 0..PairCap, fa \in BOOLEAN, fe \in FailPoints :
          SizedConstruct(v, n, fa, fe)
    \/ \E v, o \in VecIds, fa \in BOOLEAN, fe \in FailPoints :
          CopyConstruct(v, o, fa, fe)
    \/ \E v, o \in VecIds : MoveConstruct(v, o)
    \/ \E v, o \in VecIds, fa \in BOOLEAN, fe \in FailPoints :
          CopyAssign(v, o, fa, fe)
    \/ \E v, o \in VecIds : MoveAssign(v, o)
    \/ \E v, o \in VecIds : Swap(v, o)
    \/ \E v \in VecIds : Destroy(v)
    \/ \E v \in VecIds : Mutate(v, PairCap, PairVal)

Spec == Init /\ [][Next]_vars
----------------------------------------------------------------------------
\* Sequences of push, insert, erase and pop on one Vector that starts empty,
\* nothing throwing.
NextSeq ==
    \/ \E x \in Val : Size(1) < MaxCap /\ PushBack(1, x, FALSE, 0)
    \/ \E x \in Val : Size(1) < MaxCap /\ PushBackMove(1, x, FALSE, 0)
    \/ \E x \in Val : Size(1) < MaxCap /\ EmplaceBack(1, x, FALSE, 0)
    \/ \E p \in 0..MaxCap, x \in Val : Size(1) < MaxCap /\ Emplace(1, p, x, FALSE, 0)
    \/ \E p \in 0..MaxCap, x \in Val : Size(1) < MaxCap /\ Insert(1, p, x, FALSE, 0)
    \/ \E p \in 0..MaxCap, x \in Val : Size(1) < MaxCap /\ InsertMove(1, p, x, FALSE, 0)
    \/ \E p \in 0..MaxCap : Erase(1, p, 0)
    \/ PopBack(1)

SpecSeq == Init /\ [][NextSeq]_vars

----------------------------------------------------------------------------
\* One Vector into which its own elements are inserted, nothing throwing.
NextRef ==
    \/ \E x \in Val : Size(1) < MaxCap /\ PushBack(1, x, FALSE, 0)
    \/ \E n \in 0..MaxCap : Reserve(1, n, FALSE, 0)
    \/ PopBack(1)
    \/ \E p \in 0..MaxCap, i \in 0..(MaxCap - 1) :
          Size(1) < MaxCap /\ InsertRef(1, p, i, FALSE, 0)

SpecRef == Init /\ [][NextRef]_vars

----------------------------------------------------------------------------
\* The reallocating branch of PushBack, EmplaceBack and Emplace, statement
\* by statement.  frame.pc names the statement to execute next; frame.ob and
\* frame.nb are the addresses of the block of data_ at the call and of the
\* block of new_data; frame.old is what the block of data_ held at the call.

\* Largest block the statement-by-statement calls allocate.
StepCap == MaxCap + 1

\* an order in which the existing elements are transferred before the new
\* element is constructed
FollowingTransferFirst(pc) ==
    CASE pc = "allocate" -> "transfer"
      [] pc = "transfer" -> "construct"
      [] pc = "construct" -> "destroy"
      [] pc = "destroy" -> "swap"
      [] pc = "swap" -> "release"
      [] pc = "release" -> "increment"
      [] OTHER -> "idle"

\* the statement after pc in the reallocating branch
Following(pc) ==
    CASE pc = "allocate" -> "construct"
      [] pc = "construct" -> "transfer"
      [] pc = "transfer" -> "destroy"
      [] pc = "destroy" -> "swap"
      [] pc = "swap" -> "release"
      [] pc = "release" -> "increment"
      [] OTHER -> "idle"

\* the slot of new_data that element i of data_ is transferred to
DstIndex(i, shift) == IF i < shift THEN i ELSE i + 1

\* the call is left: by return (ok) or by an exception
Returned(ok, leak) ==
    /\ frame' = NoFrame
    /\ last' = Op(frame.op, frame.v, 0, frame.shift, frame.x, ok, TRUE)
    /\ leakedObj' = leak
    /\ UNCHANGED <<elemT, raw, undef, reallocs>>

\* the call goes on with the statement after the one executed
Goes(f) ==
    /\ frame' = f
    /\ UNCHANGED <<elemT, raw, undef, reallocs, last, leakedObj>>

\* if (size_ == Capacity()) { ...
Call(v, op, shift, x) ==
    /\ frame.pc = "idle" /\ ~undef /\ vec[v].alive
    /\ Size(v) = Capacity(v)
    /\ shift <= Size(v)
    /\ op \in {"PushBack", "EmplaceBack"} => shift = Size(v)
    /\ GrownCapacity(Size(v)) <= StepCap
    /\ Blocks \ allocd # {}
    /\ Goes([pc |-> "allocate", op |-> op, v |-> v, shift |-> shift, x |-> x,
             ob |-> vec[v].buf, nb |-> Null, i |-> 0, old |-> Data(v)])
    /\ UNCHANGED <<heap, allocd, vec>>

\* RawMemory<T> new_data(size_ == 0 ? 1 : size_ * 2);
StepAllocate(fa) ==
    LET n == GrownCapacity(Size(frame.v))
        nb == Allocate(n)
    IN  /\ frame.pc = "allocate" /\ ~undef
        /\ IF fa
           THEN /\ Returned(FALSE, FALSE)
                /\ UNCHANGED <<heap, allocd, vec>>
           ELSE /\ heap' = [heap EXCEPT ![nb] = RawSlots(n)]
                /\ allocd' = allocd \cup {nb}
                /\ Goes([frame EXCEPT !.pc = Following("allocate"), !.nb = nb])
                /\ UNCHANGED vec

\* new (new_data + shift) T(...): when it throws, ~RawMemory of new_data
\* deletes the block
StepConstruct(f) ==
    LET nb == frame.nb
    IN  /\ frame.pc = "construct" /\ ~undef
        /\ f => CanThrowCopy
        /\ IF f
           THEN /\ heap' = HeapWithout(heap, nb)
                /\ allocd' = AllocdWithout(allocd, nb)
                /\ Returned(FALSE, LostIn(heap[nb]))
                /\ UNCHANGED vec
           ELSE /\ heap' = [heap EXCEPT ![nb] = ConstructAt(@, frame.shift, frame.x)]
                /\ Goes([frame EXCEPT !.pc = Following("construct")])
                /\ UNCHANGED <<allocd, vec>>

\* std::uninitialized_move_n / std::uninitialized_copy_n, one element at a
\* time; with size_ == 0 they do nothing.  When a copy throws, the call that
\* was copying destroys the copies it built, then ~RawMemory of new_data
\* deletes the block.
StepTransfer(f) ==
    LET v == frame.v
        nb == frame.nb
        ob == frame.ob
        i == frame.i
        shift == frame.shift
        d == DstIndex(i, shift)
        lo == IF i < shift THEN 0 ELSE shift + 1
        rolled == RolledBack(heap[nb], lo, d - lo)
        done == IF i + 1 >= Size(v) THEN Following("transfer") ELSE "transfer"
    IN  /\ frame.pc = "transfer" /\ ~undef
        /\ f => (~UseMove /\ CanThrowCopy /\ Size(v) # 0)
        /\ IF Size(v) = 0
           THEN /\ Goes([frame EXCEPT !.pc = Following("transfer")])
                /\ UNCHANGED <<heap, allocd, vec>>
           ELSE IF f
           THEN /\ heap' = HeapWithout([heap EXCEPT ![nb] = rolled], nb)
                /\ allocd' = AllocdWithout(allocd, nb)
                /\ Returned(FALSE, LostIn(rolled))
                /\ UNCHANGED vec
           ELSE /\ heap' = [heap EXCEPT
                              ![nb] = ConstructAt(@, d, heap[ob][i + 1]),
                              ![ob] = TransferSrc(@, i, 1)]
                /\ Goes([frame EXCEPT !.pc = done, !.i = i + 1])
                /\ UNCHANGED <<allocd, vec>>

\* std::destroy_n(data_.GetAddress(), size_);
StepDestroy ==
    LET v == frame.v
        ob == frame.ob
    IN  /\ frame.pc = "destroy" /\ ~undef
        /\ heap' = IF ob = Null THEN heap
                   ELSE [heap EXCEPT ![ob] = DestroyN(@, 0, Size(v))]
        /\ Goes([frame EXCEPT !.pc = Following("destroy")])
        /\ UNCHANGED <<allocd, vec>>

\* data_.Swap(new_data);
StepSwap ==
    LET v == frame.v
    IN  /\ frame.pc = "swap" /\ ~undef
        /\ vec' = [vec EXCEPT ![v].buf = frame.nb, ![v].cap = Len(heap[frame.nb])]
        /\ Goes([frame EXCEPT !.pc = Following("swap")])
        /\ UNCHANGED <<heap, allocd>>

\* } : ~RawMemory of new_data, which holds the old block after the Swap
StepRelease ==
    LET ob == frame.ob
    IN  /\ frame.pc = "release" /\ ~undef
        /\ heap' = HeapWithout(heap, ob)
        /\ allocd' = AllocdWithout(allocd, ob)
        /\ frame' = [frame EXCEPT !.pc = Following("release")]
        /\ leakedObj' = LostIn(Slots(ob))
        /\ UNCHANGED <<elemT, raw, undef, reallocs, last, vec>>

\* ++size_; and the return
StepIncrement ==
    LET v == frame.v
    IN  /\ frame.pc = "increment" /\ ~undef
        /\ vec' = [vec EXCEPT ![v].size = @ + 1]
        /\ Returned(TRUE, leakedObj)
        /\ UNCHANGED <<heap, allocd>>

NextSteps ==
    \/ \E op \in {"PushBack", "EmplaceBack", "Emplace"}, p \in 0..StepCap, x \in Val :
          Call(1, op, p, x)
    \/ \E fa \in BOOLEAN : StepAllocate(fa)
    \/ \E f \in BOOLEAN : StepConstruct(f)
    \/ \E f \in BOOLEAN : StepTransfer(f)
    \/ StepDestroy
    \/ StepSwap
    \/ StepRelease
    \/ StepIncrement
    \/ frame.pc = "idle" /\ PopBack(1)
    \/ \E x \in Val :
          frame.pc = "idle" /\ Size(1) < Capacity(1) /\ PushBack(1, x, FALSE, 0)

SpecSteps == Init /\ [][NextSteps]_vars

----------------------------------------------------------------------------
\* Elements added one at a time to a Vector that starts empty, up to
\* MaxAppend of them, nothing throwing, the reallocations counted.

\* one element added by the handler whose outcome is r
GrowStep(v, r, op, pos, x) ==
    /\ ~undef /\ vec[v].alive
    /\ Size(v) < MaxAppend
    /\ Blocks \ allocd # {}
    /\ CommitCounted(r, op, v, 0, pos, x)

NextGrow ==
    \/ \E x \in Val :
          GrowStep(1, AppendRun(1, x, CanThrowCopy, FALSE, 0), "PushBack", Size(1), x)
    \/ \E x \in Val :
          GrowStep(1, AppendRun(1, x, CanThrowMove, FALSE, 0), "PushBack", Size(1), x)
    \/ \E x \in Val :
          GrowStep(1, AppendRun(1, x, CanThrowCopy, FALSE, 0), "EmplaceBack", Size(1), x)
    \/ \E p \in 0..MaxAppend, x \in Val :
          /\ p <= Size(1)
          /\ GrowStep(1, EmplaceRun(1, p, x, CanThrowCopy, FALSE, 0), "Emplace", p, x)
    \/ \E p \in 0..MaxAppend, x \in Val :
          /\ p <= Size(1)
          /\ GrowStep(1, EmplaceRun(1, p, x, CanThrowMove, FALSE, 0), "Emplace", p, x)

SpecGrow == Init /\ [][NextGrow]_vars

----------------------------------------------------------------------------
\* The abstract list.

InsertAt(s, p, x) ==
    [i \in 1..(Len(s) + 1) |-> IF i <= p THEN s[i] ELSE IF i = p + 1 THEN x ELSE s[i - 1]]

RemoveAt(s, p) ==
    [i \in 1..(Len(s) - 1) |-> IF i <= p THEN s[i] ELSE s[i + 1]]

\* the abstract list s after the operation recorded in l
RefAfter(s, l) ==
    CASE l.op \in {"PushBack", "EmplaceBack"} -> Append(s, l.val)
      [] l.op = "Emplace" -> InsertAt(s, l.pos, l.val)
      [] l.op = "Erase" -> RemoveAt(s, l.pos)
      [] l.op = "PopBack" -> IF s = <<>> THEN s ELSE SubSeq(s, 1, Len(s) - 1)
      [] OTHER -> s

\* slots [0, size_) of v hold live objects, slots [size_, Capacity()) none
Partition(v) ==
    /\ vec[v].size <= vec[v].cap
    /\ Len(Data(v)) = vec[v].cap
    /\ LiveRange(Data(v), 0, vec[v].size)
    /\ ~SomeLive(Data(v), vec[v].size, vec[v].cap)

----------------------------------------------------------------------------
\* C1: after each PushBack, EmplaceBack, Insert/Emplace, Erase and PopBack of
\* a sequence applied to an initially empty Vector, Size() is the length of
\* the abstract list after the same operation and begin()..end() yields the
\* elements of that list in order.
C1_MatchesReference ==
    [][/\ Contents(1)' = RefAfter(Contents(1), last')
       /\ Size(1)' = Len(RefAfter(Contents(1), last'))]_vars

\* C2: after any operation returns, every live Vector has
\* 0 <= size_ <= Capacity(), a live object in every slot of [0, size_) and
\* none in the slots of [size_, Capacity()).
C2_PartitionAfterReturn ==
    last.ok => \A v \in VecIds : vec[v].alive => Partition(v)

\* C3: Emplace at p on a Vector holding s returns with the Vector holding
\* s[0..p), the new element, s[p..length), every old element with its own
\* value, and the length one more; reallocating or in place, whatever a move
\* leaves in its source.
C3_EmplaceInserts ==
    [][\A v \in VecIds :
          (last'.op = "Emplace" /\ last'.ok /\ last'.v = v /\ Partition(v))
          => /\ Contents(v)' = InsertAt(Contents(v), last'.pos, last'.val)
             /\ Size(v)' = Size(v) + 1]_vars

\* A move from a into b, between two Vectors.
IsMove(l, b, a) ==
    /\ l.op \in {"Vector(move)", "operator=(move)"}
    /\ l.v = b /\ l.src = a /\ a # b

\* C4 as claimed: move construction of b from a and move assignment of a
\* into b leave a with Size() = 0 and Capacity() = 0 and b with the elements
\* a held.
C4_MoveEmptiesSource ==
    [][\A a, b \in VecIds :
          IsMove(last', b, a)
          => /\ Size(a)' = 0 /\ Capacity(a)' = 0
             /\ Contents(b)' = Contents(a)]_vars

\* C4 as amended: b ends with the elements, size and capacity a had; a ends
\* empty with capacity 0 after move construction, and with the elements, size
\* and capacity b had after move assignment.
C4_MoveExchanges ==
    [][\A a, b \in VecIds :
          IsMove(last', b, a)
          => /\ Size(b)' = Size(a) /\ Capacity(b)' = Capacity(a)
             /\ Size(a)' = Size(b) /\ Capacity(a)' = Capacity(b)
             /\ Contents(b)' = Contents(a)
             /\ Contents(a)' = Contents(b)
             /\ last'.op = "Vector(move)" => (Size(a)' = 0 /\ Capacity(a)' = 0)]_vars

\* C4 witness: a move assignment between two non-empty Vectors that held
\* different elements has returned.
C4_Witness ==
    /\ last.op = "operator=(move)" /\ last.v # last.src
    /\ Size(last.src) > 0 /\ Size(last.v) > 0
    /\ Contents(last.src) # Contents(last.v)

\* C5: when an operation that reallocates fails (operator new throws, or an
\* element construction, copy or transfer throws), the length, the capacity
\* and the elements of the Vector are what they were before the call.
C5_StrongGuarantee ==
    [][\A v \in VecIds :
          (/\ last'.v = v /\ ~last'.ok /\ ~undef' /\ last'.realloc
           /\ last'.op \in {"Reserve", "Resize", "PushBack", "EmplaceBack",
                            "Emplace", "operator=(copy)"})
          => /\ Size(v)' = Size(v) /\ Capacity(v)' = Capacity(v)
             /\ Contents(v)' = Contents(v)]_vars

\* C6: when an element operation fails in an in-place Emplace/Insert or in
\* Erase, the slots the Vector counts as live, [0, size_), are still exactly
\* the slots that hold a live object.
C6_InPlaceFailureKeepsPartition ==
    [][\A v \in VecIds :
          (/\ last'.v = v /\ ~last'.ok /\ ~undef' /\ ~last'.realloc
           /\ last'.op \in {"Emplace", "Erase"}
           /\ Partition(v))
          => Partition(v)']_vars

\* the blocks that are the storage of a live Vector
Owned == {vec[v].buf : v \in {w \in VecIds : vec[w].alive}} \ {Null}

\* C7: the allocated blocks are exactly the blocks that are the storage of a
\* live Vector, each the storage of one Vector only and of its capacity; a
\* block that is not allocated holds nothing; with no Vector left no block is
\* allocated.
C7_BlocksPaired ==
    /\ allocd = Owned
    /\ \A v, w \in VecIds :
          (vec[v].alive /\ vec[w].alive /\ v # w /\ vec[v].buf # Null)
          => vec[v].buf # vec[w].buf
    /\ \A v \in VecIds :
          vec[v].alive => /\ Len(Data(v)) = vec[v].cap
                          /\ (vec[v].buf = Null) = (vec[v].cap = 0)
    /\ \A b \in Blocks \ allocd : heap[b] = <<>>
    /\ (\A v \in VecIds : ~vec[v].alive) => allocd = {}

\* C7 witness: a reallocating PushBack has failed while both Vectors are
\* alive and own a block.
C7_Witness ==
    /\ last.op = "PushBack" /\ ~last.ok /\ last.realloc
    /\ \A v \in VecIds : vec[v].alive /\ vec[v].buf # Null

\* C8: RawMemory's move constructor and move assignment leave the
\* destination with the block and capacity of the source, the source with a
\* null address and capacity 0, and no two RawMemory objects with the same
\* non-null address.
C8_RawMoveTransfers ==
    [][\A r, o \in RawIds :
          (/\ last'.op \in {"RawMemory(move)", "RawMemory::operator=(move)"}
           /\ last'.v = r /\ last'.src = o /\ r # o)
          => /\ raw'[r].buf = raw[o].buf /\ raw'[r].cap = raw[o].cap
             /\ raw'[o].buf = Null /\ raw'[o].cap = 0
             /\ \A x, y \in RawIds :
                   (x # y /\ raw'[x].alive /\ raw'[y].alive /\ raw'[x].buf # Null)
                   => raw'[x].buf # raw'[y].buf]_vars

\* C9: a copy assignment this = other that returns leaves this with the
\* length and the elements of other and other as it was, in each branch;
\* self-assignment changes nothing.
C9_CopyAssignEqual ==
    [][\A v, o \in VecIds :
          (last'.op = "operator=(copy)" /\ last'.ok /\ last'.v = v /\ last'.src = o)
          => IF v = o
             THEN vec' = vec /\ heap' = heap
             ELSE /\ Size(v)' = Size(o)
                  /\ Contents(v)' = Contents(o)
                  /\ vec'[o] = vec[o]
                  /\ Data(o)' = Data(o)]_vars

\* C9 witness: a copy assignment into another Vector has returned without
\* reallocating, the destination now holding two different elements.
C9_Witness ==
    /\ last.op = "operator=(copy)" /\ last.ok /\ ~last.realloc
    /\ last.v # last.src
    /\ Contents(last.v) = <<Empty, 1>>

\* C10: copy construction of b from a gives b the length of a, a capacity
\* equal to that length and the elements of a, and leaves a as it was; no two
\* Vectors share a block, and PushBack, Emplace, Erase, PopBack, Resize and
\* an element overwrite on one Vector leave the length, the capacity and the
\* elements of the other unchanged.
C10_CopyIndependent ==
    [][/\ \A b, a \in VecIds :
             (last'.op = "Vector(copy)" /\ last'.ok /\ last'.v = b /\ last'.src = a)
             => /\ Size(b)' = Size(a) /\ Capacity(b)' = Size(a)
                /\ Contents(b)' = Contents(a)
                /\ vec'[a] = vec[a] /\ Data(a)' = Data(a)
       /\ \A b, a \in VecIds :
             (/\ a # b /\ last'.v = b /\ vec[a].alive
              /\ last'.op \in {"PushBack", "Emplace", "Erase", "PopBack",
                               "Resize", "operator[]"})
             => vec'[a] = vec[a] /\ Data(a)' = Data(a)
       /\ \A b, a \in VecIds :
             (a # b /\ vec'[a].alive /\ vec'[b].alive /\ vec'[a].buf # Null)
             => vec'[a].buf # vec'[b].buf]_vars

\* C10 witness: a mutating operation on Vector 2 has returned while Vector 1
\* holds two elements and the two Vectors differ.
C10_Witness ==
    /\ last.op \in {"PushBack", "Emplace", "Erase", "PopBack", "Resize", "operator[]"}
    /\ last.ok /\ last.v = 2
    /\ vec[1].alive /\ Size(1) = 2 /\ Contents(1) # Contents(2)

\* C11: a copy assignment this = other that returns has reallocated if and
\* only if other's length exceeded this's capacity; then one new block, of
\* other's length in slots, is this's storage, the old block is released and
\* Capacity() is other's length; otherwise no block is allocated or released
\* and the storage and Capacity() of this are what they were.  A copy
\* assignment that fails leaves the allocated blocks and Capacity() as they
\* were.
C11_CopyAssignReallocIff ==
    [][\A v, o \in VecIds :
          (last'.op = "operator=(copy)" /\ last'.v = v /\ last'.src = o /\ ~undef')
          => IF ~last'.ok
             THEN allocd' = allocd /\ vec'[v].buf = vec[v].buf
                  /\ Capacity(v)' = Capacity(v)
             ELSE IF Size(o) > Capacity(v)
             THEN /\ last'.realloc
                  /\ allocd' \ allocd = {vec'[v].buf}
                  /\ allocd \ allocd' = {vec[v].buf} \ {Null}
                  /\ Len(heap'[vec'[v].buf]) = Size(o)
                  /\ Capacity(v)' = Size(o)
             ELSE /\ ~last'.realloc
                  /\ allocd' = allocd
                  /\ vec'[v].buf = vec[v].buf
                  /\ Capacity(v)' = Capacity(v)]_vars

\* C11 witness: a copy assignment of a source of PairCap elements has
\* reallocated and returned, and two blocks are allocated.
C11_Witness ==
    /\ last.op = "operator=(copy)" /\ last.ok /\ last.realloc
    /\ Size(last.v) = PairCap
    /\ Cardinality(allocd) = 2

\* C12: after Reserve(c) returns, Capacity() is the larger of the old
\* capacity and c, and Size() and the elements are what they were; when c is
\* not above the old capacity nothing changes and no block is allocated; a
\* Reserve(c) that follows a Reserve(c) that returned changes nothing.
C12_ReserveKeepsElements ==
    [][\A v \in VecIds :
          (last'.op = "Reserve" /\ last'.ok /\ last'.v = v)
          => /\ Capacity(v)' = Max(Capacity(v), last'.pos)
             /\ Size(v)' = Size(v)
             /\ Contents(v)' = Contents(v)
             /\ last'.pos <= Capacity(v)
                   => (vec' = vec /\ heap' = heap /\ allocd' = allocd
                       /\ ~last'.realloc)
             /\ (last.op = "Reserve" /\ last.ok /\ last.v = v
                 /\ last.pos = last'.pos)
                   => (vec' = vec /\ heap' = heap /\ allocd' = allocd)]_vars

\* C12 witness: a Reserve has moved two elements of a type whose move
\* empties its source into a new block and returned.
C12_Witness ==
    /\ last.op = "Reserve" /\ last.ok /\ last.realloc
    /\ elemT = "Movable"
    /\ Size(last.v) = 2 /\ Contents(last.v) = <<1, 2>>

\* C14: after Resize(n) returns: when n is below the length, the trailing
\* elements are destroyed, the first n keep their values, the length is n and
\* the capacity and the block are what they were; when n is not below the
\* length, the old elements keep their values, slots [length, n) hold
\* value-initialized elements, the length is n and the capacity is the larger
\* of the old capacity and n.
C14_ResizeSetsLength ==
    [][\A v \in VecIds :
          (last'.op = "Resize" /\ last'.ok /\ last'.v = v)
          => LET n == last'.pos
             IN  /\ Size(v)' = n
                 /\ IF n < Size(v)
                    THEN /\ Capacity(v)' = Capacity(v)
                         /\ vec'[v].buf = vec[v].buf /\ allocd' = allocd
                         /\ Contents(v)' = SubSeq(Contents(v), 1, n)
                         /\ \A i \in (n + 1)..Size(v) : Data(v)'[i] = Dead
                    ELSE /\ Capacity(v)' = Max(Capacity(v), n)
                         /\ Contents(v)' =
                               [i \in 1..n |-> IF i <= Size(v) THEN Contents(v)[i]
                                               ELSE Empty]]_vars

\* C14 witness: a Resize has grown a Vector of one element to three, in a
\* new block, and returned.
C14_Witness ==
    /\ last.op = "Resize" /\ last.ok /\ last.realloc
    /\ Contents(last.v) = <<1, Empty, Empty>>

\* C15: PopBack never fails; on an empty Vector it changes nothing; on a
\* Vector of length > 0 whose last slot holds an element it destroys the
\* element at index length - 1 and nothing else, the length is one less and
\* the capacity, the block and the other slots are what they were.
C15_PopBackRemovesLast ==
    [][\A v \in VecIds :
          (last'.op = "PopBack" /\ last'.v = v /\ ~undef')
          => /\ last'.ok
             /\ allocd' = allocd
             /\ IF Size(v) = 0
                THEN vec' = vec /\ heap' = heap
                ELSE /\ Size(v)' = Size(v) - 1
                     /\ Capacity(v)' = Capacity(v)
                     /\ vec'[v].buf = vec[v].buf
                     /\ Data(v)' = [i \in 1..Len(Data(v)) |->
                                      IF i = Size(v) THEN Dead ELSE Data(v)[i]]
                     /\ \A b \in Blocks \ {vec[v].buf} : heap'[b] = heap[b]]_vars

\* C15 witness: a PopBack has removed the third element of a full block.
C15_Witness ==
    /\ last.op = "PopBack" /\ last.ok
    /\ Capacity(last.v) = 3 /\ Size(last.v) = 2
    /\ ~SomeLive(Data(last.v), 2, 3)

\* the smallest power of two that is at least n, and its exponent
CeilLog2(n) == CHOOSE k \in 0..(n + 1) : 2^k >= n /\ (k = 0 \/ 2^(k - 1) < n)
PowerOfTwoAbove(n) == 2^CeilLog2(n)

\* C13: a PushBack, EmplaceBack or Emplace/Insert that returns has
\* reallocated if and only if the length was the capacity, and then the
\* capacity is max(1, 2 * old capacity), otherwise the capacity is unchanged;
\* after N >= 1 elements added one at a time to an empty Vector the capacity
\* is the smallest power of two >= N and ceil(log2 N) + 1 reallocations were
\* made.
C13_GeometricGrowth ==
    [][\A v \in VecIds :
          (last'.op \in {"PushBack", "EmplaceBack", "Emplace"}
           /\ last'.ok /\ last'.v = v)
          => /\ last'.realloc = (Size(v) = Capacity(v))
             /\ Capacity(v)' = IF Size(v) = Capacity(v)
                               THEN Max(1, 2 * Capacity(v)) ELSE Capacity(v)
             /\ reallocs' = reallocs + (IF Size(v) = Capacity(v) THEN 1 ELSE 0)
             /\ Size(v)' = Size(v) + 1
             /\ Capacity(v)' = PowerOfTwoAbove(Size(v)')
             /\ reallocs' = CeilLog2(Size(v)') + 1]_vars

\* C13 witness: five elements were added, the capacity is 8 after 4
\* reallocations.
C13_Witness ==
    /\ Size(1) = 5 /\ Capacity(1) = 8 /\ reallocs = 4
    /\ last.op = "PushBack" /\ last.realloc

\* C16: when the construction of an element throws in Vector(n) or in the
\* copy constructor, the elements constructed before it are destroyed and the
\* block is released before the exception leaves: no live object is lost, the
\* allocated blocks and the heap are what they were, and the source of a copy
\* and every other Vector are unchanged.
C16_FailedConstructionCleansUp ==
    [][(last'.op \in {"Vector(n)", "Vector(copy)"} /\ ~last'.ok /\ ~undef')
          => /\ ~leakedObj'
             /\ allocd' = allocd
             /\ heap' = heap
             /\ vec' = vec
             /\ ~vec'[last'.v].alive]_vars

\* C16 witness: the copy of the second of two elements has thrown in a copy
\* construction.
C16_Witness ==
    /\ last.op = "Vector(copy)" /\ ~last.ok /\ last.pos = 2
    /\ Size(last.src) = 2 /\ vec[last.src].alive

\* C17: when a copy of an element throws in a copy assignment this = other
\* that reuses the storage, this keeps its length, its capacity and its
\* block, every slot of [0, length) holds a live object with its old value or
\* the value of the same slot of other, no slot from length on holds a live
\* object, no live object is lost and other is unchanged.
C17_ReuseFailureKeepsLength ==
    [][\A v, o \in VecIds :
          (/\ last'.op = "operator=(copy)" /\ ~last'.ok /\ ~last'.realloc
           /\ ~undef' /\ last'.v = v /\ last'.src = o
           /\ Partition(v) /\ Partition(o))
          => /\ Size(v)' = Size(v) /\ Capacity(v)' = Capacity(v)
             /\ vec'[v].buf = vec[v].buf /\ allocd' = allocd
             /\ \A i \in 1..Size(v) :
                   /\ Data(v)'[i] # Dead
                   /\ \/ Data(v)'[i] = Data(v)[i]
                      \/ i <= Size(o) /\ Data(v)'[i] = Data(o)[i]
             /\ ~SomeLive(Data(v)', Size(v), Capacity(v))
             /\ ~leakedObj'
             /\ vec'[o] = vec[o] /\ Data(o)' = Data(o)]_vars

\* C17 witness: in a copy assignment that reuses the storage the second
\* copy has thrown after the first element was assigned, leaving this with
\* one new and one old element.
C17_Witness ==
    /\ last.op = "operator=(copy)" /\ ~last.ok /\ ~last.realloc /\ last.pos = 2
    /\ Size(last.v) = 2 /\ Size(last.src) = 2
    /\ Contents(last.v)[1] = Contents(last.src)[1]
    /\ Contents(last.v)[2] # Contents(last.src)[2]

\* C19: no operation deletes a block that still holds a live object: when a
\* reallocating PushBack, EmplaceBack or Emplace on a Vector that satisfies
\* the partition fails or returns, every object it constructed in a block it
\* released was destroyed before.
C19_NoObjectLost ==
    [][\A v \in VecIds :
          (/\ last'.op \in {"PushBack", "EmplaceBack", "Emplace"}
           /\ last'.realloc /\ last'.v = v /\ ~undef'
           /\ Partition(v))
          => ~leakedObj']_vars

\* C20: an Insert(position, value) that returns, value being a reference to
\* an element of the same Vector, leaves at position an element equal to the
\* value the referenced element held before the call, when it reallocates
\* and when it inserts in place.
C20_InsertOwnElement ==
    [][\A v \in VecIds :
          (last'.op = "Insert(ref)" /\ last'.ok /\ last'.v = v)
          => Data(v)'[last'.pos + 1] = Data(v)[last'.src + 1]]_vars

\* the new element has been constructed in its slot of the new block
Constructed ==
    /\ frame.nb # Null /\ frame.nb \in allocd
    /\ heap[frame.nb][frame.shift + 1] # Dead

\* every element of the old block has been transferred into the new block
TransferredAll ==
    /\ frame.nb # Null /\ frame.nb \in allocd
    /\ \A i \in 0..(Len(frame.old) - 1) :
          heap[frame.nb][DstIndex(i, frame.shift) + 1] = frame.old[i + 1]

\* what holds while a reallocating call is executing
StepOrder ==
    LET v == frame.v
        ob == frame.ob
        nb == frame.nb
        n == Len(frame.old)
        oldThere == ob # Null /\ ob \in allocd
    IN  frame.pc # "idle" =>
        \* (1) before (2), (3): an object in a block means the block is allocated
        /\ nb = Null => \A b \in Blocks \ {ob} : ~LostIn(heap[b])
        \* (2) before (3), (4): the old block is as it was at the call, and
        \* nothing was transferred, until the new element is constructed
        /\ ~Constructed =>
              /\ Slots(ob) = frame.old
              /\ nb # Null => ~LostIn(heap[nb])
        \* (3) before (4): no old element is destroyed until all are transferred
        /\ (oldThere /\ ~LiveRange(heap[ob], 0, n)) => TransferredAll
        \* (4) before (5): the blocks are swapped after the old elements are
        \* destroyed, and the old block is released after the swap
        /\ vec[v].buf = nb => (oldThere => ~SomeLive(heap[ob], 0, n))
        /\ (ob # Null /\ ob \notin allocd) => vec[v].buf = nb
        \* (6) last: size_ is the length at the call
        /\ Size(v) = n

\* C18: in every reallocating PushBack, EmplaceBack and Emplace the block is
\* allocated, then the new element constructed in its slot, then the old
\* elements transferred, then the old elements destroyed, then the blocks
\* swapped, then the length incremented: no old element is moved from or
\* destroyed before the new element is constructed, none is destroyed before
\* all are transferred, and the length changes only after the swap, as the
\* last statement.
C18_ReallocationOrder ==
    [][/\ StepOrder'
       /\ (frame.pc # "idle" /\ vec'[frame.v].size # vec[frame.v].size)
             => /\ vec[frame.v].buf = frame.nb
                /\ TransferredAll
                /\ vec'[frame.v].size = vec[frame.v].size + 1
                /\ frame'.pc = "idle" /\ last'.ok]_vars

\* C18 witness: an Emplace in the middle of a full Vector of two elements of
\* a type whose move empties its source has transferred both and is about
\* to destroy the old elements.
C18_Witness ==
    /\ frame.pc = "destroy" /\ frame.op = "Emplace"
    /\ frame.shift = 1 /\ frame.old = <<1, 2>>
    /\ elemT = "Movable"
    /\ heap[frame.ob] = <<Empty, Empty>>
====
